---- MODULE Spec2Model ----
(***************************************************************************)
(* Protardio Discord verification: the OAuth callback (identity resolver,  *)
(* ownership aggregator, binding registry), the pending-session store, and *)
(* the periodic re-verification and cleanup timers of src/src/index.ts,    *)
(* over the tables of src/src/supabase-database.ts.                        *)
(*                                                                         *)
(* Time is counted in hours.  An address is the tuple of its characters    *)
(* after the 0x prefix, so that toLowerCase is a real conversion.          *)
(* A table lookup fails either because .single() does not match exactly   *)
(* one row or because the request does not reach the store; the code       *)
(* answers null in both cases.                                             *)
(***************************************************************************)
EXTENDS Integers, Sequences, FiniteSets, TLC

VARIABLES verifications, pendings, roles, isReady, chain, now, nextSession,
          cb, rv, fx

vars == <<verifications, pendings, roles, isReady, chain, now, nextSession,
          cb, rv, fx>>

----------------------------------------------------------------------------
(* Bounds of the model *)

MaxTime == 25
MaxSessions == 2
MaxBalance == 1

(* Program constants, in hours *)

PENDING_MAX_AGE == 1
STALE_AGE == 24
STALE_LIMIT == 100

----------------------------------------------------------------------------
(* Universe *)

DiscordIds == {"D1", "D2"}

Username == [d \in DiscordIds |-> IF d = "D1" THEN "alice" ELSE "bob"]

Slots == {1, 2}

WA == <<"a", "1">>
WB == <<"b", "2">>
Wallets == {WA, WB}
NoWallet == <<>>

\* what a client may submit as the wallet parameter
WalletInputs == {WA, <<"A", "1">>, WB, <<"B", "2">>, <<"g", "1">>, <<"a">>}

FidInputs == {0, 42}

\* the social graph: fid -> the user record the Neynar bulk endpoint returns
NeynarUsers == [f \in {42} |->
                  [custody_address |-> <<"B", "2">>,
                   eth_addresses   |-> << <<"b", "2">>, <<"A", "1">> >>]]

----------------------------------------------------------------------------
(* String helpers *)

LowerChar(c) == CASE c = "A" -> "a"
                  [] c = "B" -> "b"
                  [] c = "C" -> "c"
                  [] OTHER   -> c

toLowerCase(s) == [i \in DOMAIN s |-> LowerChar(s[i])]

HexChars == {"a", "A", "b", "B", "c", "C", "1", "2", "3"}

\* /^0x[a-fA-F0-9]{40}$/ with the address length scaled to two characters
IsValidWallet(w) == Len(w) = 2 /\ \A i \in 1..Len(w) : w[i] \in HexChars

Range(s) == {s[i] : i \in DOMAIN s}

Min(a, b) == IF a < b THEN a ELSE b

\* a spread that keeps repeated elements
SpreadKeepingRepeats(s) == s

RECURSIVE DedupeFrom(_, _)
DedupeFrom(s, acc) ==
  IF s = <<>> THEN acc
  ELSE IF Head(s) \in Range(acc) THEN DedupeFrom(Tail(s), acc)
       ELSE DedupeFrom(Tail(s), Append(acc, Head(s)))

\* [...new Set(s)]: first occurrences, in insertion order
SetSpread(s) == DedupeFrom(s, <<>>)

----------------------------------------------------------------------------
(* Identity resolver *)

RECURSIVE PushVerified(_, _)
PushVerified(addrs, wallets) ==
  IF addrs = <<>> THEN wallets
  ELSE LET normalized == toLowerCase(Head(addrs))
       IN  IF normalized \in Range(wallets)
           THEN PushVerified(Tail(addrs), wallets)
           ELSE PushVerified(Tail(addrs), Append(wallets, normalized))

\* the wallet list built from one Neynar user record
WalletsOfUser(user) ==
  PushVerified(user.eth_addresses,
               IF user.custody_address # <<>>
               THEN <<toLowerCase(user.custody_address)>> ELSE <<>>)

\* what the bulk-user request yields; apiOk = FALSE: it failed, was not ok, or threw
NeynarResponse(fid, apiOk) ==
  IF ~apiOk THEN [ok |-> FALSE, users |-> <<>>]
  ELSE [ok |-> TRUE,
        users |-> IF fid \in DOMAIN NeynarUsers THEN <<NeynarUsers[fid]>> ELSE <<>>]

getFarcasterWallets(response) ==
  IF ~response.ok THEN <<>>
  ELSE IF response.users = <<>> THEN <<>>
  ELSE WalletsOfUser(response.users[1])

allWalletsOf(wallet, farcasterWallets) ==
  SetSpread(<<toLowerCase(wallet)>> \o farcasterWallets)

\* the callback's candidate list: the pending wallet, then the Farcaster wallets
resolveWallets(fid, wallet, response) ==
  allWalletsOf(wallet, IF fid > 0 THEN getFarcasterWallets(response) ELSE <<>>)

----------------------------------------------------------------------------
(* Trust scorer (src/src/neynar.ts) *)

\* pfp_url.includes('default'), a URL being the tuple of its parts
Includes(url, part) == part \in Range(url)

FollowerPoints(n) ==
  IF n >= 1000 THEN 30
  ELSE IF n >= 500 THEN 25
  ELSE IF n >= 100 THEN 20
  ELSE IF n >= 50 THEN 15
  ELSE IF n >= 10 THEN 10
  ELSE IF n >= 1 THEN 5
  ELSE 0

FollowingPoints(n) ==
  IF n >= 100 THEN 10
  ELSE IF n >= 50 THEN 7
  ELSE IF n >= 10 THEN 5
  ELSE 0

\* the chain with the points of the two upper thresholds exchanged
AddressPointsSwapped(n) ==
  IF n >= 3 THEN 15
  ELSE IF n >= 2 THEN 20
  ELSE IF n >= 1 THEN 10
  ELSE 0

AddressPoints(n) ==
  IF n >= 3 THEN 20
  ELSE IF n >= 2 THEN 15
  ELSE IF n >= 1 THEN 10
  ELSE 0

\* ratio = follower_count / following_count; ratio >= 0.5 && ratio <= 10
RatioPoints(followers, following) ==
  IF following > 0
  THEN (IF 2 * followers >= following /\ followers <= 10 * following THEN 5 ELSE 0)
  ELSE 0

\* the score without the follower/following ratio bonus
calculateSybilScoreNoRatio(found) ==
  IF found = {} THEN 0
  ELSE LET user == CHOOSE u \in found : TRUE
           score == FollowerPoints(user.follower_count)
                    + FollowingPoints(user.following_count)
                    + (IF user.power_badge THEN 25 ELSE 0)
                    + AddressPoints(Len(user.eth_addresses))
                    + (IF user.pfp_url # <<>> /\ ~Includes(user.pfp_url, "default")
                       THEN 5 ELSE 0)
                    + (IF user.display_name # "" /\ user.display_name # user.username
                       THEN 5 ELSE 0)
       IN  Min(score, 100)

\* found = what getFarcasterUser returned: {} for null, else {user}
calculateSybilScore(found) ==
  IF found = {} THEN 0
  ELSE LET user == CHOOSE u \in found : TRUE
           score == FollowerPoints(user.follower_count)
                    + FollowingPoints(user.following_count)
                    + (IF user.power_badge THEN 25 ELSE 0)
                    + AddressPoints(Len(user.eth_addresses))
                    + (IF user.pfp_url # <<>> /\ ~Includes(user.pfp_url, "default")
                       THEN 5 ELSE 0)
                    + (IF user.display_name # "" /\ user.display_name # user.username
                       THEN 5 ELSE 0)
                    + RatioPoints(user.follower_count, user.following_count)
       IN  Min(score, 100)

\* the score the callback shows: no lookup for a wallet-only session
sybilScoreOf(fid, found) == IF fid > 0 THEN calculateSybilScore(found) ELSE 0

\* the social side of a profile, as the callback's accounts may have it
DefaultSocial ==
  [follower_count |-> 120, following_count |-> 60, power_badge |-> FALSE,
   pfp_url |-> <<"cdn", "cat">>, display_name |-> "Alice A", username |-> "alice"]

Socials ==
  {DefaultSocial,
   [DefaultSocial EXCEPT !.follower_count = 0, !.following_count = 0,
                         !.pfp_url = <<>>, !.display_name = ""],
   [DefaultSocial EXCEPT !.follower_count = 5000, !.power_badge = TRUE]}

\* what the bulk-user request yields for the profile; {} stands for null
getFarcasterUser(fid, apiOk, social) ==
  IF apiOk /\ fid \in DOMAIN NeynarUsers
  THEN {[follower_count |-> social.follower_count,
         following_count |-> social.following_count,
         power_badge |-> social.power_badge,
         eth_addresses |-> NeynarUsers[fid].eth_addresses,
         custody_address |-> NeynarUsers[fid].custody_address,
         pfp_url |-> social.pfp_url, display_name |-> social.display_name,
         username |-> social.username]}
  ELSE {}

----------------------------------------------------------------------------
(* Ownership aggregator *)

\* the read tried again until it answers: a failure never shows
getProtardioBalanceRetried(balanceOf, wallet, rpcOk) == balanceOf[wallet]

\* rpcOk = FALSE: readContract threw and the catch returned 0
getProtardioBalance(balanceOf, wallet, rpcOk) ==
  IF rpcOk THEN balanceOf[wallet] ELSE 0

\* the balances one pass over allWallets observes; failed = positions whose read fails
Observe(balanceOf, allWallets, failed) ==
  [i \in DOMAIN allWallets |->
     getProtardioBalance(balanceOf, allWallets[i], i \notin failed)]

\* the loop with holdingWallet assigned on every positive balance
RECURSIVE BalanceLoopLastHolder(_, _, _, _)
BalanceLoopLastHolder(allWallets, obs, totalBalance, holdingWallet) ==
  IF allWallets = <<>>
  THEN [totalBalance |-> totalBalance, holdingWallet |-> holdingWallet]
  ELSE IF Head(obs) > 0
       THEN BalanceLoopLastHolder(Tail(allWallets), Tail(obs),
                                  totalBalance + Head(obs), Head(allWallets))
       ELSE BalanceLoopLastHolder(Tail(allWallets), Tail(obs),
                                  totalBalance, holdingWallet)

\* the loop with totalBalance assigned instead of accumulated
RECURSIVE BalanceLoopAssign(_, _, _, _)
BalanceLoopAssign(allWallets, obs, totalBalance, holdingWallet) ==
  IF allWallets = <<>>
  THEN [totalBalance |-> totalBalance, holdingWallet |-> holdingWallet]
  ELSE IF Head(obs) > 0
       THEN BalanceLoopAssign(Tail(allWallets), Tail(obs), Head(obs),
                              IF holdingWallet = NoWallet THEN Head(allWallets)
                              ELSE holdingWallet)
       ELSE BalanceLoopAssign(Tail(allWallets), Tail(obs), totalBalance, holdingWallet)

RECURSIVE BalanceLoop(_, _, _, _)
BalanceLoop(allWallets, obs, totalBalance, holdingWallet) ==
  IF allWallets = <<>>
  THEN [totalBalance |-> totalBalance, holdingWallet |-> holdingWallet]
  ELSE LET balance == Head(obs)
           wallet  == Head(allWallets)
       IN  IF balance > 0
           THEN BalanceLoop(Tail(allWallets), Tail(obs), totalBalance + balance,
                            IF holdingWallet = NoWallet THEN wallet ELSE holdingWallet)
           ELSE BalanceLoop(Tail(allWallets), Tail(obs), totalBalance, holdingWallet)

\* the callback's loop: totalBalance = 0, holdingWallet = null at entry
CheckWallets(allWallets, obs) == BalanceLoop(allWallets, obs, 0, NoWallet)

RECURSIVE RecheckLoop(_, _)
RecheckLoop(obs, totalBalance) ==
  IF obs = <<>> THEN totalBalance
  ELSE RecheckLoop(Tail(obs), totalBalance + Head(obs))

----------------------------------------------------------------------------
(* Persistence layer *)

storePending(table, sessionId, fid, wallet) ==
  table \cup {[session_id |-> sessionId, fid |-> fid,
               wallet |-> toLowerCase(wallet), created_at |-> now]}

\* .single(): the row when exactly one matches, otherwise an error
Single(rows) == IF Cardinality(rows) = 1 THEN rows ELSE {}

\* the lookups answer null ({} here) on any error: the one .single() raises,
\* or the request not reaching the store (readOk = FALSE)
getPending(sessionId, readOk) ==
  IF readOk THEN Single({p \in pendings : p.session_id = sessionId}) ELSE {}

deletePending(table, sessionId) == {p \in table : p.session_id # sessionId}

\* a plain insert: the row is added whatever the table holds
storeVerificationInsert(table, fid, wallet, discordId, discordUsername, nftBalance) ==
  table \cup {[fid |-> fid, wallet |-> toLowerCase(wallet), discord_id |-> discordId,
               discord_username |-> discordUsername, nft_balance |-> nftBalance,
               verified_at |-> now, last_checked |-> now]}

\* the upsert against a table with unique indexes on wallet and on fid: a row
\* that would share either with another account's row is refused
storeVerificationUnique(table, fid, wallet, discordId, discordUsername, nftBalance) ==
  IF \E v \in table : /\ v.discord_id # discordId
                       /\ (v.wallet = toLowerCase(wallet) \/ (fid # 0 /\ v.fid = fid))
  THEN table
  ELSE {v \in table : v.discord_id # discordId}
         \cup {[fid |-> fid, wallet |-> toLowerCase(wallet), discord_id |-> discordId,
                discord_username |-> discordUsername, nft_balance |-> nftBalance,
                verified_at |-> now, last_checked |-> now]}

\* upsert on the unique column discord_id
storeVerification(table, fid, wallet, discordId, discordUsername, nftBalance) ==
  {v \in table : v.discord_id # discordId}
    \cup {[fid |-> fid, wallet |-> toLowerCase(wallet), discord_id |-> discordId,
           discord_username |-> discordUsername, nft_balance |-> nftBalance,
           verified_at |-> now, last_checked |-> now]}

\* the update stamping verified_at as the upsert does
updateNftBalanceStamped(table, discordId, nftBalance) ==
  {IF v.discord_id = discordId
   THEN [v EXCEPT !.nft_balance = nftBalance, !.last_checked = now, !.verified_at = now]
   ELSE v : v \in table}

updateNftBalance(table, discordId, nftBalance) ==
  {IF v.discord_id = discordId
   THEN [v EXCEPT !.nft_balance = nftBalance, !.last_checked = now]
   ELSE v : v \in table}

getVerificationByWallet(wallet, readOk) ==
  IF readOk THEN Single({v \in verifications : v.wallet = toLowerCase(wallet)}) ELSE {}

getVerificationByFid(fid, readOk) ==
  IF readOk THEN Single({v \in verifications : v.fid = fid}) ELSE {}

deleteVerification(table, discordId) == {v \in table : v.discord_id # discordId}

\* the sweep taking the rows created exactly an hour ago as well
cleanupOldPendingInclusive(table) ==
  {p \in table : ~(p.created_at <= now - PENDING_MAX_AGE)}

cleanupOldPending(table) == {p \in table : ~(p.created_at < now - PENDING_MAX_AGE)}

StaleRows == {v \in verifications : v.last_checked < now - STALE_AGE}

\* the stale rows in any order, cut at the limit
getStaleVerificationsUnordered(limit) ==
  LET n == Cardinality(StaleRows)
  IN  {[i \in 1..Min(n, limit) |->
          [fid |-> q[i].fid, wallet |-> q[i].wallet, discord_id |-> q[i].discord_id]] :
         q \in {f \in [1..n -> StaleRows] : \A i, j \in 1..n : i # j => f[i] # f[j]}}

\* every ordering of the stale rows by last_checked ascending, cut at the limit
getStaleVerifications(limit) ==
  LET n == Cardinality(StaleRows)
  IN  {[i \in 1..Min(n, limit) |->
          [fid |-> q[i].fid, wallet |-> q[i].wallet, discord_id |-> q[i].discord_id]] :
         q \in {f \in [1..n -> StaleRows] :
                  /\ \A i, j \in 1..n : i # j => f[i] # f[j]
                  /\ \A i, j \in 1..n : i < j => f[i].last_checked <= f[j].last_checked}}

----------------------------------------------------------------------------
(* Discord role collaborator (src/src/bot.ts) *)

\* what one call can do: ok, a failure before the role is added, a failure
\* while removing the Unverified role after the holder role was added
GrantOutcomes == {"ok", "failed", "failed_after_add"}

assignHolderRole(discordId, outcome) ==
  IF ~isReady THEN [ret |-> FALSE, roles |-> roles]
  ELSE IF outcome = "failed" THEN [ret |-> FALSE, roles |-> roles]
  ELSE IF outcome = "failed_after_add"
       THEN [ret |-> FALSE, roles |-> roles \cup {discordId}]
  ELSE [ret |-> TRUE, roles |-> roles \cup {discordId}]

RevokeOutcomes == {"ok", "failed"}

removeHolderRole(discordId, outcome) ==
  IF ~isReady THEN [ret |-> FALSE, roles |-> roles]
  ELSE IF outcome = "failed" THEN [ret |-> FALSE, roles |-> roles]
  ELSE IF discordId \in roles
       THEN [ret |-> TRUE, roles |-> roles \ {discordId}]
  ELSE [ret |-> FALSE, roles |-> roles]

----------------------------------------------------------------------------
(* State *)

IdleCallback ==
  [pc |-> "idle", sessionId |-> 0, fid |-> 0, wallet |-> NoWallet,
   user |-> "none", totalBalance |-> 0,
   holdingWallet |-> NoWallet, roleAssigned |-> FALSE, stored |-> FALSE,
   storeOk |-> FALSE, page |-> "none", named |-> "none", sybilScore |-> 0,
   lookup |-> FALSE]

\* runs of the re-verification callback that can be in progress at once
Runs == {1, 2}

\* failure: a collaborator call made for the item at the head has failed;
\* lookup: getFarcasterWallets has been called for it;
\* allFailed: every balance read made for it has failed
IdleRun ==
  [pc |-> "idle", queue |-> <<>>, totalBalance |-> 0, failure |-> FALSE,
   lookup |-> FALSE, allFailed |-> FALSE]

NoFx == [fn |-> "none"]

Init ==
  /\ verifications = {}
  /\ pendings = {}
  /\ roles = {}
  /\ isReady = FALSE
  /\ chain \in [Wallets -> 0..MaxBalance]
  /\ now = 0
  /\ nextSession = 1
  /\ cb = [s \in Slots |-> IdleCallback]
  /\ rv = [r \in Runs |-> IdleRun]
  /\ fx = NoFx

----------------------------------------------------------------------------
(* Environment *)

\* client.once('ready')
BotReady ==
  /\ ~isReady
  /\ isReady' = TRUE
  /\ UNCHANGED <<verifications, pendings, roles, chain, now, nextSession, cb, rv, fx>>

\* tokens move on chain
ChainChange(w, b) ==
  /\ chain[w] # b
  /\ chain' = [chain EXCEPT ![w] = b]
  /\ UNCHANGED <<verifications, pendings, roles, isReady, now, nextSession, cb, rv, fx>>

TickSteps == {STALE_AGE + 1}

\* the clock moves on by d hours, up to the hour until
Advance(d, until) ==
  /\ now + d <= until
  /\ now' = now + d
  /\ UNCHANGED <<verifications, pendings, roles, isReady, chain, nextSession, cb, rv, fx>>

Tick(d) == Advance(d, MaxTime)

----------------------------------------------------------------------------
(* GET /auth/discord *)

AuthDiscord(fid, wallet, dbOk) ==
  /\ IsValidWallet(wallet)
  /\ nextSession <= MaxSessions
  /\ pendings' = IF dbOk THEN storePending(pendings, nextSession, fid, wallet)
                 ELSE pendings
  /\ nextSession' = nextSession + 1
  /\ UNCHANGED <<verifications, roles, isReady, chain, now, cb, rv, fx>>

----------------------------------------------------------------------------
(* GET /auth/discord/callback, one action per await *)

Goto(s, label) == [cb EXCEPT ![s].pc = label]

\* the callback with the two response checks left out: it goes on without
\* an account
CallbackBeginUnchecked(s, state, oauth, readOk) ==
  /\ cb[s].pc = "idle"
  /\ LET pending == getPending(state, readOk)
     IN  IF pending = {}
         THEN cb' = [cb EXCEPT ![s] = [IdleCallback EXCEPT
                        !.pc = "done", !.sessionId = state,
                        !.page = "invalid_session"]]
         ELSE LET p == CHOOSE x \in pending : TRUE
              IN  cb' = [cb EXCEPT ![s] = [IdleCallback EXCEPT
                             !.pc = "wallets", !.sessionId = state,
                             !.fid = p.fid, !.wallet = p.wallet,
                             !.user = IF oauth = "fail" THEN "none" ELSE oauth]]
  /\ UNCHANGED <<verifications, pendings, roles, isReady, chain, now, nextSession, rv, fx>>

\* the callback taking the account from the id of the start request when that
\* request carried one, and from the OAuth response otherwise
CallbackBeginAsRequested(s, state, oauth, readOk) ==
  /\ cb[s].pc = "idle"
  /\ LET pending == getPending(state, readOk)
         requested == IF fx.fn = "start" /\ fx.discord_id # <<>> /\ Len(fx.discord_id) = 17
                         /\ \A i \in DOMAIN fx.discord_id : fx.discord_id[i] = "2"
                      THEN "D2" ELSE oauth
     IN  IF pending = {}
         THEN cb' = [cb EXCEPT ![s] = [IdleCallback EXCEPT
                        !.pc = "done", !.sessionId = state,
                        !.page = "invalid_session"]]
         ELSE LET p == CHOOSE x \in pending : TRUE
              IN  IF oauth = "fail"
                  THEN cb' = [cb EXCEPT ![s] = [IdleCallback EXCEPT
                                 !.pc = "done", !.sessionId = state,
                                 !.fid = p.fid, !.wallet = p.wallet,
                                 !.page = "error"]]
                  ELSE cb' = [cb EXCEPT ![s] = [IdleCallback EXCEPT
                                 !.pc = "wallets", !.sessionId = state,
                                 !.fid = p.fid, !.wallet = p.wallet,
                                 !.user = requested]]
  /\ UNCHANGED <<verifications, pendings, roles, isReady, chain, now, nextSession, rv, fx>>

\* getPending, token exchange, user info; oauth is "fail" or the account
CallbackBegin(s, state, oauth, readOk) ==
  /\ cb[s].pc = "idle"
  /\ LET pending == getPending(state, readOk)
     IN  IF pending = {}
         THEN cb' = [cb EXCEPT ![s] = [IdleCallback EXCEPT
                        !.pc = "done", !.sessionId = state,
                        !.page = "invalid_session"]]
         ELSE LET p == CHOOSE x \in pending : TRUE
              IN  IF oauth = "fail"
                  THEN cb' = [cb EXCEPT ![s] = [IdleCallback EXCEPT
                                 !.pc = "done", !.sessionId = state,
                                 !.fid = p.fid, !.wallet = p.wallet,
                                 !.page = "error"]]
                  ELSE cb' = [cb EXCEPT ![s] = [IdleCallback EXCEPT
                                 !.pc = "wallets", !.sessionId = state,
                                 !.fid = p.fid, !.wallet = p.wallet,
                                 !.user = oauth]]
  /\ UNCHANGED <<verifications, pendings, roles, isReady, chain, now, nextSession, rv, fx>>

\* the balance loop with the no-NFT branch answering without deletePending
CallbackCheckWalletsKeepSession(s, apiOk, failed) ==
  /\ cb[s].pc = "wallets"
  /\ LET allWallets == resolveWallets(cb[s].fid, cb[s].wallet,
                                      NeynarResponse(cb[s].fid, apiOk))
         obs == Observe(chain, allWallets, failed)
         r == CheckWallets(allWallets, obs)
     IN  /\ failed \subseteq DOMAIN allWallets
         /\ cb' = [cb EXCEPT ![s] = [@ EXCEPT
                     !.lookup = (cb[s].fid > 0),
                     !.totalBalance = r.totalBalance,
                     !.holdingWallet = r.holdingWallet,
                     !.page = IF r.totalBalance > 0 /\ r.holdingWallet # NoWallet
                              THEN "none" ELSE "no_nft",
                     !.pc = IF r.totalBalance > 0 /\ r.holdingWallet # NoWallet
                            THEN (IF cb[s].fid > 0 THEN "checkFid" ELSE "checkWallet")
                            ELSE "done"]]
  /\ UNCHANGED <<verifications, pendings, roles, isReady, chain, now, nextSession, rv, fx>>

\* getFarcasterWallets, allWallets and the balance loop
CallbackCheckWallets(s, apiOk, failed) ==
  /\ cb[s].pc = "wallets"
  /\ LET allWallets == resolveWallets(cb[s].fid, cb[s].wallet,
                                      NeynarResponse(cb[s].fid, apiOk))
         obs == Observe(chain, allWallets, failed)
         r == CheckWallets(allWallets, obs)
     IN  /\ failed \subseteq DOMAIN allWallets
         /\ cb' = [cb EXCEPT ![s] = [@ EXCEPT
                     !.lookup = (cb[s].fid > 0),
                     !.totalBalance = r.totalBalance,
                     !.holdingWallet = r.holdingWallet,
                     !.page = IF r.totalBalance > 0 /\ r.holdingWallet # NoWallet
                              THEN "none" ELSE "no_nft",
                     !.pc = IF r.totalBalance > 0 /\ r.holdingWallet # NoWallet
                            THEN (IF cb[s].fid > 0 THEN "checkFid" ELSE "checkWallet")
                            ELSE "deletePending"]]
  /\ UNCHANGED <<verifications, pendings, roles, isReady, chain, now, nextSession, rv, fx>>

\* CHECK IF FID ALREADY USED
CallbackCheckFid(s, readOk) ==
  /\ cb[s].pc = "checkFid"
  /\ LET existing == getVerificationByFid(cb[s].fid, readOk)
     IN  IF \E v \in existing : v.discord_id # cb[s].user
         THEN LET v == CHOOSE x \in existing : TRUE
              IN  cb' = [cb EXCEPT ![s] = [@ EXCEPT !.pc = "deletePending",
                            !.page = "fid_conflict", !.named = v.discord_username]]
         ELSE cb' = Goto(s, "checkWallet")
  /\ UNCHANGED <<verifications, pendings, roles, isReady, chain, now, nextSession, rv, fx>>

\* the callback with the score made a gate: passesSybilCheck's threshold of 25
CallbackCheckWalletGated(s, readOk, apiOk, social) ==
  /\ cb[s].pc = "checkWallet"
  /\ LET existing == getVerificationByWallet(cb[s].holdingWallet, readOk)
         sybilScore == sybilScoreOf(cb[s].fid, getFarcasterUser(cb[s].fid, apiOk, social))
     IN  IF \E v \in existing : v.discord_id # cb[s].user
         THEN LET v == CHOOSE x \in existing : TRUE
              IN  cb' = [cb EXCEPT ![s] = [@ EXCEPT !.pc = "deletePending",
                            !.page = "wallet_conflict", !.named = v.discord_username]]
         ELSE IF cb[s].fid > 0 /\ sybilScore < 25
         THEN cb' = [cb EXCEPT ![s] = [@ EXCEPT !.pc = "deletePending",
                        !.page = "error", !.sybilScore = sybilScore]]
         ELSE cb' = [cb EXCEPT ![s] = [@ EXCEPT !.pc = "grant",
                                              !.sybilScore = sybilScore]]
  /\ UNCHANGED <<verifications, pendings, roles, isReady, chain, now, nextSession, rv, fx>>

\* CHECK IF WALLET ALREADY USED, then SYBIL CHECK: the score is computed for
\* the success page and decides nothing
CallbackCheckWallet(s, readOk, apiOk, social) ==
  /\ cb[s].pc = "checkWallet"
  /\ LET existing == getVerificationByWallet(cb[s].holdingWallet, readOk)
         sybilScore == sybilScoreOf(cb[s].fid, getFarcasterUser(cb[s].fid, apiOk, social))
     IN  IF \E v \in existing : v.discord_id # cb[s].user
         THEN LET v == CHOOSE x \in existing : TRUE
              IN  cb' = [cb EXCEPT ![s] = [@ EXCEPT !.pc = "deletePending",
                            !.page = "wallet_conflict", !.named = v.discord_username]]
         ELSE cb' = [cb EXCEPT ![s] = [@ EXCEPT !.pc = "grant",
                                              !.sybilScore = sybilScore]]
  /\ UNCHANGED <<verifications, pendings, roles, isReady, chain, now, nextSession, rv, fx>>

\* the grant with its result not read: the callback goes on to store
CallbackAssignRoleUnchecked(s, outcome) ==
  /\ cb[s].pc = "grant"
  /\ LET r == assignHolderRole(cb[s].user, outcome)
     IN  /\ roles' = r.roles
         /\ cb' = [cb EXCEPT ![s] = [@ EXCEPT !.roleAssigned = r.ret, !.pc = "store"]]
  /\ UNCHANGED <<verifications, pendings, isReady, chain, now, nextSession, rv, fx>>

\* assignHolderRole; on failure the error page is sent straight away
CallbackAssignRole(s, outcome) ==
  /\ cb[s].pc = "grant"
  /\ LET r == assignHolderRole(cb[s].user, outcome)
     IN  /\ roles' = r.roles
         /\ cb' = [cb EXCEPT ![s] = [@ EXCEPT !.roleAssigned = r.ret,
                     !.pc = IF r.ret THEN "store" ELSE "done",
                     !.page = IF r.ret THEN "none" ELSE "role_failed"]]
  /\ UNCHANGED <<verifications, pendings, isReady, chain, now, nextSession, rv, fx>>

\* the store with the wallet of the session in place of the holding wallet
CallbackStoreSubmitted(s, dbOk) ==
  /\ cb[s].pc = "store"
  /\ verifications' =
       IF dbOk THEN storeVerification(verifications, cb[s].fid, cb[s].wallet,
                                      cb[s].user, Username[cb[s].user],
                                      cb[s].totalBalance)
       ELSE verifications
  /\ cb' = [cb EXCEPT ![s] = [@ EXCEPT !.stored = TRUE, !.storeOk = dbOk,
                                       !.pc = "deletePending",
                                       !.page = "success"]]
  /\ UNCHANGED <<pendings, roles, isReady, chain, now, nextSession, rv, fx>>

\* storeVerification; its result is not read
CallbackStore(s, dbOk) ==
  /\ cb[s].pc = "store"
  /\ verifications' =
       IF dbOk THEN storeVerification(verifications, cb[s].fid, cb[s].holdingWallet,
                                      cb[s].user, Username[cb[s].user],
                                      cb[s].totalBalance)
       ELSE verifications
  /\ cb' = [cb EXCEPT ![s] = [@ EXCEPT !.stored = TRUE, !.storeOk = dbOk,
                                       !.pc = "deletePending",
                                       !.page = "success"]]
  /\ UNCHANGED <<pendings, roles, isReady, chain, now, nextSession, rv, fx>>

\* deletePending, then the page decided earlier is sent
CallbackDeletePending(s, dbOk) ==
  /\ cb[s].pc = "deletePending"
  /\ pendings' = IF dbOk THEN deletePending(pendings, cb[s].sessionId) ELSE pendings
  /\ cb' = Goto(s, "done")
  /\ UNCHANGED <<verifications, roles, isReady, chain, now, nextSession, rv, fx>>

\* the response has been sent; the handler returns
CallbackReturn(s) ==
  /\ cb[s].pc = "done"
  /\ cb' = [cb EXCEPT ![s] = IdleCallback]
  /\ UNCHANGED <<verifications, pendings, roles, isReady, chain, now, nextSession, rv, fx>>

----------------------------------------------------------------------------
(* Timers *)

\* the hourly cleanup interval
CleanupTimer ==
  /\ pendings' = cleanupOldPending(pendings)
  /\ pendings' # pendings
  /\ UNCHANGED <<verifications, roles, isReady, chain, now, nextSession, cb, rv, fx>>

NextItem(queue) ==
  IF Tail(queue) = <<>> THEN IdleRun
  ELSE [pc |-> "check", queue |-> Tail(queue), totalBalance |-> 0, failure |-> FALSE,
        lookup |-> FALSE, allFailed |-> FALSE]

\* the 6-hourly re-verification interval fires: getStaleVerifications
RecheckStart(r, limit) ==
  /\ rv[r].pc = "idle"
  /\ \E stale \in getStaleVerifications(limit) :
       /\ stale # <<>>
       /\ rv' = [rv EXCEPT ![r] = [pc |-> "check", queue |-> stale,
                                   totalBalance |-> 0, failure |-> FALSE,
                                   lookup |-> FALSE, allFailed |-> FALSE]]
  /\ UNCHANGED <<verifications, pendings, roles, isReady, chain, now, nextSession, cb, fx>>

\* wallets and total balance of the verification at the head of the batch
RecheckBalance(r, apiOk, failed) ==
  /\ rv[r].pc = "check"
  /\ LET verification == Head(rv[r].queue)
         farcasterWallets == getFarcasterWallets(NeynarResponse(verification.fid, apiOk))
         allWallets == allWalletsOf(verification.wallet, farcasterWallets)
         obs == Observe(chain, allWallets, failed)
         totalBalance == RecheckLoop(obs, 0)
     IN  /\ failed \subseteq DOMAIN allWallets
         /\ rv' = [rv EXCEPT ![r].totalBalance = totalBalance,
                             ![r].failure = (~apiOk \/ failed # {}),
                             ![r].lookup = TRUE,
                             ![r].allFailed = (failed = DOMAIN allWallets),
                             ![r].pc = IF totalBalance = 0 THEN "revoke" ELSE "update"]
  /\ UNCHANGED <<verifications, pendings, roles, isReady, chain, now, nextSession, cb, fx>>

\* removeHolderRole; its result is not read
RecheckRevoke(r, outcome) ==
  /\ rv[r].pc = "revoke"
  /\ roles' = removeHolderRole(Head(rv[r].queue).discord_id, outcome).roles
  /\ rv' = [rv EXCEPT ![r].pc = "delete",
                      ![r].failure = (@ \/ ~isReady \/ outcome = "failed")]
  /\ UNCHANGED <<verifications, pendings, isReady, chain, now, nextSession, cb, fx>>

RecheckDelete(r, dbOk) ==
  /\ rv[r].pc = "delete"
  /\ verifications' = IF dbOk
                      THEN deleteVerification(verifications, Head(rv[r].queue).discord_id)
                      ELSE verifications
  /\ rv' = [rv EXCEPT ![r] = NextItem(rv[r].queue)]
  /\ UNCHANGED <<pendings, roles, isReady, chain, now, nextSession, cb, fx>>

RecheckUpdate(r, dbOk) ==
  /\ rv[r].pc = "update"
  /\ verifications' = IF dbOk
                      THEN updateNftBalance(verifications, Head(rv[r].queue).discord_id,
                                            rv[r].totalBalance)
                      ELSE verifications
  /\ rv' = [rv EXCEPT ![r] = NextItem(rv[r].queue)]
  /\ UNCHANGED <<pendings, roles, isReady, chain, now, nextSession, cb, fx>>

----------------------------------------------------------------------------
(* Specifications *)

\* which collaborator outcomes a specification lets happen:
\* api = outcomes of the Neynar call, rpc = sets of wallets whose balance read fails,
\* grant / revoke = outcomes of the role calls, db = outcomes of a table write,
\* read = outcomes of a table lookup
\* and what it lets run: accounts = who completes OAuth, runs = re-verification
\* runs that may overlap, limit = the batch limit of a run
AllFaults ==
  [api |-> BOOLEAN, rpc |-> SUBSET (1..Cardinality(Wallets)),
   grant |-> GrantOutcomes, revoke |-> RevokeOutcomes, db |-> BOOLEAN,
   read |-> BOOLEAN,
   accounts |-> DiscordIds, runs |-> Runs, limit |-> STALE_LIMIT,
   profile |-> [apiOk : BOOLEAN, social : Socials]]

\* the profile lookup succeeding, on one profile
OneProfile == {[apiOk |-> TRUE, social |-> DefaultSocial]}

\* every failure but those of table writes; one re-verification run at a time
SeqFaults == [AllFaults EXCEPT !.db = {TRUE}, !.runs = {1}, !.profile = OneProfile]

\* the failures of the role calls alone
ConcFaults ==
  [AllFaults EXCEPT !.api = {TRUE}, !.rpc = {{}}, !.db = {TRUE}, !.read = {TRUE},
                    !.profile = OneProfile]


Start(F) ==
  \E fid \in FidInputs, wallet \in WalletInputs, dbOk \in F.db :
    AuthDiscord(fid, wallet, dbOk)

Begin(slots, F) ==
  \E s \in slots, state \in 1..MaxSessions, oauth \in F.accounts \cup {"fail"},
     readOk \in F.read :
    CallbackBegin(s, state, oauth, readOk)

CallbackStep(s, F) ==
  \/ \E apiOk \in F.api, failed \in F.rpc : CallbackCheckWallets(s, apiOk, failed)
  \/ \E readOk \in F.read : CallbackCheckFid(s, readOk)
  \/ \E readOk \in F.read, p \in F.profile :
       CallbackCheckWallet(s, readOk, p.apiOk, p.social)
  \/ \E outcome \in F.grant : CallbackAssignRole(s, outcome)
  \/ \E dbOk \in F.db : CallbackStore(s, dbOk)
  \/ \E dbOk \in F.db : CallbackDeletePending(s, dbOk)
  \/ CallbackReturn(s)

Timers(F) ==
  \/ CleanupTimer
  \/ \E r \in F.runs : RecheckStart(r, F.limit)
  \/ \E r \in F.runs, apiOk \in F.api, failed \in F.rpc : RecheckBalance(r, apiOk, failed)
  \/ \E r \in F.runs, outcome \in F.revoke : RecheckRevoke(r, outcome)
  \/ \E r \in F.runs, dbOk \in F.db : RecheckDelete(r, dbOk)
  \/ \E r \in F.runs, dbOk \in F.db : RecheckUpdate(r, dbOk)

\* One callback at a time (each runs to completion before the next starts), the
\* timers running alongside, the chain and the clock moving freely.
SeqSlots == {1}

NextSeq ==
  \/ BotReady
  \/ \E w \in Wallets, b \in 0..MaxBalance : ChainChange(w, b)
  \/ \E d \in TickSteps : Tick(d)
  \/ Start(SeqFaults)
  \/ Begin(SeqSlots, SeqFaults)
  \/ \E s \in SeqSlots : CallbackStep(s, SeqFaults)
  \/ Timers(SeqFaults)

SpecSeq == Init /\ [][NextSeq]_vars

\* Callbacks served as they arrive, interleaving at every await, the clock
\* moving freely, over a chain that stands still and with the timers off.
NextConc ==
  \/ BotReady
  \/ \E d \in TickSteps : Tick(d)
  \/ Start(ConcFaults)
  \/ Begin(Slots, ConcFaults)
  \/ \E s \in Slots : CallbackStep(s, ConcFaults)

InitConc == Init /\ chain = [w \in Wallets |-> 1]

SpecConc == InitConc /\ [][NextConc]_vars

\* One account verifying, one callback at a time, over every social profile
\* and every outcome of the profile lookup; the timers off.
GateFaults ==
  [AllFaults EXCEPT !.db = {TRUE}, !.read = {TRUE}, !.accounts = {"D1"}]

NextGate ==
  \/ BotReady
  \/ Start(GateFaults)
  \/ Begin(SeqSlots, GateFaults)
  \/ \E s \in SeqSlots : CallbackStep(s, GateFaults)

SpecGate == Init /\ [][NextGate]_vars

----------------------------------------------------------------------------
(* The resolver and the aggregator on their own: every input within the    *)
(* bounds below is drawn at the start and the callback's code applied.     *)

MaxFnBalance == 2
MaxFnAddresses == 2

WC == <<"c", "3">>
FnWallets == {WA, WB, WC}

\* addresses as the social graph may spell them
RawAddresses == {<<"a", "1">>, <<"A", "1">>, <<"b", "2">>, <<"B", "2">>, <<"c", "3">>}

SeqsUpTo(S, n) == UNION {[1..k -> S] : k \in 0..n}

FnUsers == [custody_address : RawAddresses \cup {<<>>},
            eth_addresses : SeqsUpTo(RawAddresses, MaxFnAddresses)]

FnResponses == {[ok |-> FALSE, users |-> <<>>], [ok |-> TRUE, users |-> <<>>]}
                 \cup {[ok |-> TRUE, users |-> <<u>>] : u \in FnUsers}

NoRepeats(q) == \A i, j \in DOMAIN q : i # j => q[i] # q[j]

FnResolveInputs ==
  [fn : {"resolve"}, done : {FALSE}, fid : FidInputs,
   wallet : {w \in WalletInputs : IsValidWallet(w)},
   response : FnResponses, allWallets : {<<>>}]

FnAggregateInputs ==
  [fn : {"aggregate"}, done : {FALSE},
   allWallets : {q \in SeqsUpTo(FnWallets, Cardinality(FnWallets)) : NoRepeats(q)},
   balanceOf : [FnWallets -> 0..MaxFnBalance],
   failed : SUBSET (1..Cardinality(FnWallets)),
   totalBalance : {0}, holdingWallet : {NoWallet}]

InitFn ==
  /\ verifications = {}
  /\ pendings = {}
  /\ roles = {}
  /\ isReady = FALSE
  /\ chain = [w \in Wallets |-> 0]
  /\ now = 0
  /\ nextSession = 1
  /\ cb = [s \in Slots |-> IdleCallback]
  /\ rv = [r \in Runs |-> IdleRun]
  /\ fx \in FnResolveInputs \cup FnAggregateInputs

\* storePending at the start endpoint, then lines 157-160 of the callback
FnResolve ==
  /\ fx.fn = "resolve" /\ ~fx.done
  /\ LET pending == CHOOSE p \in storePending({}, 1, fx.fid, fx.wallet) : TRUE
     IN  fx' = [fx EXCEPT !.done = TRUE,
                  !.allWallets = resolveWallets(pending.fid, pending.wallet, fx.response)]
  /\ UNCHANGED <<verifications, pendings, roles, isReady, chain, now, nextSession, cb, rv>>

\* lines 163-173 of the callback
FnAggregate ==
  /\ fx.fn = "aggregate" /\ ~fx.done
  /\ fx.failed \subseteq DOMAIN fx.allWallets
  /\ LET r == CheckWallets(fx.allWallets, Observe(fx.balanceOf, fx.allWallets, fx.failed))
     IN  fx' = [fx EXCEPT !.done = TRUE, !.totalBalance = r.totalBalance,
                          !.holdingWallet = r.holdingWallet]
  /\ UNCHANGED <<verifications, pendings, roles, isReady, chain, now, nextSession, cb, rv>>

NextFn == FnResolve \/ FnAggregate

SpecFn == InitFn /\ [][NextFn]_vars

----------------------------------------------------------------------------
(* Properties of the aggregator and the resolver *)

\* what the read at position i of the pass yields: the balance, or 0 when it failed
Effective(i) == IF i \in fx.failed THEN 0 ELSE fx.balanceOf[fx.allWallets[i]]

Positive == {i \in DOMAIN fx.allWallets : Effective(i) > 0}

\* C6: the primary holding wallet is the first candidate, in list order, whose
\* balance is positive, and there is none exactly when no candidate has a
\* positive balance.
C6_PrimaryIsFirstPositive ==
  (fx.fn = "aggregate" /\ fx.done) =>
    /\ (Positive = {}) <=> (fx.holdingWallet = NoWallet)
    /\ \A i \in Positive :
         (\A j \in Positive : i <= j) => fx.holdingWallet = fx.allWallets[i]

\* a list whose first wallet holds nothing and whose second does: the second is chosen
C6_Witness ==
  /\ fx.fn = "aggregate" /\ fx.done
  /\ Len(fx.allWallets) = 2
  /\ Effective(1) = 0 /\ Effective(2) = 2
  /\ fx.holdingWallet = fx.allWallets[2]

RECURSIVE SumOver(_)
SumOver(I) ==
  IF I = {} THEN 0
  ELSE LET i == CHOOSE x \in I : TRUE IN Effective(i) + SumOver(I \ {i})

\* C7: the aggregate balance is the sum of the candidates' balances, a failed
\* read counting as 0 without stopping the reads that follow it.
C7_AggregateIsSum ==
  (fx.fn = "aggregate" /\ fx.done) =>
    fx.totalBalance = SumOver(DOMAIN fx.allWallets)

\* a failed read of a wallet that holds tokens, followed by two successful reads
C7_Witness ==
  /\ fx.fn = "aggregate" /\ fx.done
  /\ Len(fx.allWallets) = 3
  /\ fx.failed = {1} /\ fx.balanceOf[fx.allWallets[1]] > 0
  /\ Effective(2) = 1 /\ Effective(3) = 2
  /\ fx.totalBalance = 3

UpperChars == {"A", "B", "C"}

IsLowerCase(w) == \A i \in DOMAIN w : w[i] \notin UpperChars

CasePairs == {{"a", "A"}, {"b", "B"}, {"c", "C"}}

\* the same address up to letter case
SameAddress(x, y) ==
  /\ Len(x) = Len(y)
  /\ \A i \in DOMAIN x : x[i] = y[i] \/ {x[i], y[i]} \in CasePairs

\* the wallets the social graph returned for the attempt, in the order returned
Discovered ==
  IF fx.fid > 0 /\ fx.response.ok /\ fx.response.users # <<>>
  THEN LET u == fx.response.users[1]
       IN  (IF u.custody_address # <<>> THEN <<u.custody_address>> ELSE <<>>)
             \o u.eth_addresses
  ELSE <<>>

FirstAt(q, w) == CHOOSE k \in DOMAIN q :
                   /\ SameAddress(q[k], w)
                   /\ \A m \in DOMAIN q : SameAddress(q[m], w) => k <= m

\* C8: the resolver's output starts with the submitted wallet, is never empty,
\* is all lowercase and free of repeats, holds exactly the submitted wallet and
\* the discovered ones, and keeps the discovered wallets in the order returned.
C8_ResolverOutput ==
  (fx.fn = "resolve" /\ fx.done) =>
    LET out == fx.allWallets
    IN  /\ out # <<>>
        /\ SameAddress(out[1], fx.wallet)
        /\ \A i \in DOMAIN out : IsLowerCase(out[i])
        /\ \A i, j \in DOMAIN out : i # j => out[i] # out[j]
        /\ \A k \in DOMAIN Discovered : \E i \in DOMAIN out : SameAddress(out[i], Discovered[k])
        /\ \A i \in DOMAIN out :
             \/ SameAddress(out[i], fx.wallet)
             \/ \E k \in DOMAIN Discovered : SameAddress(out[i], Discovered[k])
        /\ \A i, j \in 2..Len(out) :
             i < j => FirstAt(Discovered, out[i]) < FirstAt(Discovered, out[j])

\* a wallet submitted in upper case and discovered in lower case appears once,
\* first, and the two other discovered wallets follow in the order returned
C8_Witness ==
  /\ fx.fn = "resolve" /\ fx.done
  /\ fx.wallet = <<"A", "1">>
  /\ Discovered = << <<"c", "3">>, <<"a", "1">>, <<"B", "2">> >>
  /\ fx.allWallets = << <<"a", "1">>, <<"c", "3">>, <<"b", "2">> >>

\* the lookup failed: the output is the submitted wallet alone
C8_WitnessLookupFailed ==
  /\ fx.fn = "resolve" /\ fx.done
  /\ fx.fid > 0 /\ ~fx.response.ok
  /\ fx.allWallets = <<toLowerCase(fx.wallet)>>

----------------------------------------------------------------------------
(* Properties of the binding registry *)

\* C1 as stated: with callbacks served one at a time and re-verification runs
\* in between, no two Bindings share a non-zero social identifier and no two
\* share a wallet.
C1_Uniqueness ==
  \A v1, v2 \in verifications :
    v1 # v2 => /\ (v1.fid = v2.fid => v1.fid = 0)
               /\ v1.wallet # v2.wallet

\* the step of callback s, in any action
StepOf(s) == cb'[s] # cb[s]

\* C2: the Binding is stored only in an attempt whose role grant returned
\* success; an attempt whose grant fails changes no Binding and ends with the
\* role-failure page.
C2_GrantBeforeStore ==
  [][\A s \in Slots :
       /\ (StepOf(s) /\ verifications' # verifications) => cb[s].roleAssigned
       /\ (StepOf(s) /\ cb'[s].stored) => cb'[s].roleAssigned
       /\ (StepOf(s) /\ cb[s].pc = "grant" /\ ~cb'[s].roleAssigned) =>
            /\ verifications' = verifications
            /\ cb'[s].pc = "done"
            /\ cb'[s].page = "role_failed"
       /\ (StepOf(s) /\ cb[s].page = "role_failed") =>
            (cb'[s] = IdleCallback /\ verifications' = verifications)]_vars

\* a grant failed while the bot was connected: failure page, no Binding of the caller
C2_Witness ==
  \E s \in Slots :
    /\ cb[s].pc = "done" /\ cb[s].page = "role_failed"
    /\ isReady /\ ~cb[s].stored
    /\ \A v \in verifications : v.discord_id # cb[s].user

\* the row a successful store of callback s leaves behind, timestamps apart
BoundRow(s) ==
  [fid |-> cb[s].fid, wallet |-> cb[s].holdingWallet, discord_id |-> cb[s].user,
   discord_username |-> Username[cb[s].user], nft_balance |-> cb[s].totalBalance]

Untimed(v) ==
  [fid |-> v.fid, wallet |-> v.wallet, discord_id |-> v.discord_id,
   discord_username |-> v.discord_username, nft_balance |-> v.nft_balance]

UntimedTable(table) == {Untimed(v) : v \in table}

OneBindingPerAccount ==
  \A v1, v2 \in verifications : v1.discord_id = v2.discord_id => v1 = v2

\* C9: there is never more than one Binding per account; a successful store
\* replaces the account's Binding in every field and touches no other row; an
\* attempt is rejected as a conflict only over a Binding of another account.
C9_OnePerAccount ==
  /\ []OneBindingPerAccount
  /\ [][\A s \in Slots :
          /\ (StepOf(s) /\ cb[s].pc = "store" /\ cb'[s].storeOk) =>
               /\ \A v \in verifications' :
                    v.discord_id = cb[s].user =>
                      /\ Untimed(v) = BoundRow(s)
                      /\ v.verified_at = now /\ v.last_checked = now
               /\ \E v \in verifications' : v.discord_id = cb[s].user
               /\ \A v \in verifications' \cup verifications :
                    v.discord_id # cb[s].user =>
                      (v \in verifications' /\ v \in verifications)
          /\ (StepOf(s) /\ cb'[s].page = "fid_conflict" /\ cb[s].page = "none") =>
               \E v \in verifications :
                 v.fid = cb[s].fid /\ v.discord_id # cb[s].user
          /\ (StepOf(s) /\ cb'[s].page = "wallet_conflict" /\ cb[s].page = "none") =>
               \E v \in verifications :
                 v.wallet = cb[s].holdingWallet /\ v.discord_id # cb[s].user]_vars

\* an account bound with a social identifier has passed both checks again, at
\* a later hour, with that identifier and another wallet, and is about to
\* overwrite its Binding
C9_Witness ==
  \E s \in Slots :
    /\ cb[s].pc = "store"
    /\ \E v \in verifications :
         /\ v.discord_id = cb[s].user
         /\ v.fid = cb[s].fid /\ v.fid > 0
         /\ v.wallet # cb[s].holdingWallet
         /\ v.verified_at < now

\* C10: a successful store of a Binding the table already holds, timestamps
\* apart, leaves the table as it was, timestamps apart, with no row added.
C10_Idempotent ==
  [][\A s \in Slots :
       (/\ StepOf(s) /\ cb[s].pc = "store" /\ cb'[s].storeOk
        /\ BoundRow(s) \in UntimedTable(verifications)) =>
          /\ UntimedTable(verifications') = UntimedTable(verifications)
          /\ Cardinality(verifications') = Cardinality(verifications)]_vars

\* the same bind is about to be stored a second time, at a later hour
C10_Witness ==
  \E s \in Slots :
    /\ cb[s].pc = "store"
    /\ \E v \in verifications : Untimed(v) = BoundRow(s) /\ v.last_checked < now

\* C3 as stated: an attempt whose non-zero social identifier is bound to another
\* account is rejected at the check with a conflict naming that account, and
\* neither roles nor Bindings change.
C3_FidConflictRejected ==
  [][\A s \in Slots :
       (/\ StepOf(s) /\ cb[s].pc = "checkFid" /\ cb[s].fid # 0
        /\ \E v \in verifications : v.fid = cb[s].fid /\ v.discord_id # cb[s].user) =>
          /\ cb'[s].page = "fid_conflict"
          /\ cb'[s].pc = "deletePending"
          /\ \E v \in verifications :
               /\ v.fid = cb[s].fid /\ v.discord_id # cb[s].user
               /\ cb'[s].named = v.discord_username
          /\ verifications' = verifications /\ roles' = roles]_vars

\* C4 as stated: an attempt whose primary holding wallet is the wallet of
\* another account's Binding is rejected at the check with a wallet conflict,
\* and neither roles nor Bindings change.
C4_WalletConflictRejected ==
  [][\A s \in Slots :
       (/\ StepOf(s) /\ cb[s].pc = "checkWallet"
        /\ \E v \in verifications :
             v.wallet = cb[s].holdingWallet /\ v.discord_id # cb[s].user) =>
          /\ cb'[s].page = "wallet_conflict"
          /\ cb'[s].pc = "deletePending"
          /\ verifications' = verifications /\ roles' = roles]_vars

\* C5 as stated: a selected Binding whose total is 0 is deleted with its role
\* revoked; one whose total is positive stays, with the new total and last_checked.
C5_RecheckOutcome ==
  [][\A r \in Runs :
       /\ (rv[r].pc = "delete" /\ rv'[r] # rv[r]) =>
            /\ \A v \in verifications' : v.discord_id # Head(rv[r].queue).discord_id
            /\ Head(rv[r].queue).discord_id \notin roles'
       /\ (rv[r].pc = "update" /\ rv'[r] # rv[r]) =>
            \E v \in verifications' :
              /\ v.discord_id = Head(rv[r].queue).discord_id
              /\ v.nft_balance = rv[r].totalBalance
              /\ v.last_checked = now]_vars

----------------------------------------------------------------------------
(* Properties of the pending-session store *)

\* callback s has read its session and gone on to verification with it
Proceeding(s) == cb[s].pc \notin {"idle"} /\ cb[s].page \notin {"invalid_session", "error"}

\* C11 as stated: a session is consumed at most once: a callback goes on to
\* verification with a session only if no other callback is doing so.
C11_SessionConsumedOnce ==
  [][\A s \in Slots :
       (cb[s].pc = "idle" /\ cb'[s].pc = "wallets") =>
         \A t \in Slots \ {s} :
           ~(Proceeding(t) /\ cb[t].sessionId = cb'[s].sessionId)]_vars

----------------------------------------------------------------------------
(* The uniqueness check under interleaving *)

\* C12: the check is a read and the store an unconditional write: a callback
\* passes a check exactly when the lookup finds no single row of another
\* account at that moment, and its store writes its row whatever the table
\* holds by then.
C12_CheckThenWrite ==
  [][\A s \in Slots :
       /\ (StepOf(s) /\ cb[s].pc = "checkFid") =>
            (cb'[s].pc = "checkWallet" <=>
               ~\E v \in getVerificationByFid(cb[s].fid, TRUE) :
                   v.discord_id # cb[s].user)
       /\ (StepOf(s) /\ cb[s].pc = "checkWallet") =>
            (cb'[s].pc = "grant" <=>
               ~\E v \in getVerificationByWallet(cb[s].holdingWallet, TRUE) :
                   v.discord_id # cb[s].user)
       /\ (StepOf(s) /\ cb[s].pc = "store") =>
            \E v \in verifications' : Untimed(v) = BoundRow(s)]_vars

\* two accounts, both having passed the checks, are bound with the same wallet
\* and the same non-zero social identifier
C12_Witness ==
  \E v1, v2 \in verifications :
    /\ v1.discord_id # v2.discord_id
    /\ v1.wallet = v2.wallet
    /\ v1.fid = v2.fid /\ v1.fid # 0
    /\ {v1.discord_id, v2.discord_id} \subseteq roles

----------------------------------------------------------------------------
(* The trust scorer on its own: every profile below is drawn at the start  *)
(* and scored as the callback scores it.                                   *)

ScoreFollowers == {0, 1, 9, 10, 11, 49, 50, 99, 100, 499, 500, 999, 1000, 5000}
ScoreFollowing == {0, 1, 2, 3, 9, 10, 49, 50, 99, 100, 2000}
ScoreAddresses == {SubSeq(<<WA, WB, WA, WB>>, 1, n) : n \in 0..4}
ScoreAvatars == {<<>>, <<"cdn", "default">>, <<"cdn", "cat">>}
ScoreNames == {"", "alice", "Alice A"}

ScoreProfiles ==
  [follower_count : ScoreFollowers, following_count : ScoreFollowing,
   power_badge : BOOLEAN, eth_addresses : ScoreAddresses,
   custody_address : {WA},
   pfp_url : ScoreAvatars, display_name : ScoreNames, username : {"alice"}]

InitScore ==
  /\ verifications = {} /\ pendings = {} /\ roles = {}
  /\ isReady = FALSE
  /\ chain = [w \in Wallets |-> 0]
  /\ now = 0 /\ nextSession = 1
  /\ cb = [s \in Slots |-> IdleCallback]
  /\ rv = [r \in Runs |-> IdleRun]
  /\ \E fid \in FidInputs, found \in {{}} \cup {{u} : u \in ScoreProfiles} :
       fx = [fn |-> "score", fid |-> fid, found |-> found, done |-> FALSE, score |-> 0]

FnScore ==
  /\ fx.fn = "score" /\ ~fx.done
  /\ fx' = [fx EXCEPT !.done = TRUE, !.score = sybilScoreOf(fx.fid, fx.found)]
  /\ UNCHANGED <<verifications, pendings, roles, isReady, chain, now, nextSession, cb, rv>>

NextScore == FnScore

SpecScore == InitScore /\ [][NextScore]_vars

\* the points of the highest threshold met
Bucket(n, table) ==
  LET met == {t \in DOMAIN table : t <= n}
  IN  table[CHOOSE t \in met : \A u \in met : u <= t]

FollowerTable == (0 :> 0) @@ (1 :> 5) @@ (10 :> 10) @@ (50 :> 15) @@ (100 :> 20)
                 @@ (500 :> 25) @@ (1000 :> 30)
FollowingTable == (0 :> 0) @@ (10 :> 5) @@ (50 :> 7) @@ (100 :> 10)
AddressTable == (0 :> 0) @@ (1 :> 10) @@ (2 :> 15) @@ (3 :> 20)

HasAvatar(u) == u.pfp_url # <<>> /\ ~Includes(u.pfp_url, "default")
HasOwnName(u) == u.display_name # "" /\ u.display_name # u.username
RatioInRange(u) ==
  /\ u.following_count > 0
  /\ 2 * u.follower_count >= u.following_count
  /\ u.follower_count <= 10 * u.following_count

ScoreAsSpecified(u) ==
  LET sum == Bucket(u.follower_count, FollowerTable)
             + Bucket(u.following_count, FollowingTable)
             + (IF u.power_badge THEN 25 ELSE 0)
             + Bucket(Len(u.eth_addresses), AddressTable)
             + (IF HasAvatar(u) THEN 5 ELSE 0)
             + (IF HasOwnName(u) THEN 5 ELSE 0)
             + (IF RatioInRange(u) THEN 5 ELSE 0)
  IN  IF sum > 100 THEN 100 ELSE sum

\* C13: the score is an integer in 0..100 equal to the capped sum of the
\* buckets; a missing profile or social identifier 0 scores 0.
C13_ScoreFormula ==
  (fx.fn = "score" /\ fx.done) =>
     /\ fx.score \in 0..100
     /\ (fx.fid = 0 \/ fx.found = {}) => fx.score = 0
     /\ (fx.fid # 0 /\ fx.found # {}) =>
          \A u \in fx.found : fx.score = ScoreAsSpecified(u)

\* a profile in the top bucket of every signal, its ratio in range, scored 100
C13_Witness ==
  /\ fx.fn = "score" /\ fx.done /\ fx.fid # 0 /\ fx.score = 100
  /\ \A u \in fx.found : RatioInRange(u) /\ u.follower_count >= 1000

\* the scored profile with one signal changed
WithFollowers(u, n) == [u EXCEPT !.follower_count = n]
WithFollowing(u, n) == [u EXCEPT !.following_count = n]

ScoreOf(u) == sybilScoreOf(fx.fid, {u})

\* raising any signal but the two counts never lowers the score
MonotoneInOthers(u) ==
  /\ \A a \in ScoreAddresses :
       Len(a) > Len(u.eth_addresses) =>
          ScoreOf([u EXCEPT !.eth_addresses = a]) >= ScoreOf(u)
  /\ ~u.power_badge => ScoreOf([u EXCEPT !.power_badge = TRUE]) >= ScoreOf(u)
  /\ \A a \in ScoreAvatars :
       (~HasAvatar(u) /\ HasAvatar([u EXCEPT !.pfp_url = a])) =>
          ScoreOf([u EXCEPT !.pfp_url = a]) >= ScoreOf(u)
  /\ \A d \in ScoreNames :
       (~HasOwnName(u) /\ HasOwnName([u EXCEPT !.display_name = d])) =>
          ScoreOf([u EXCEPT !.display_name = d]) >= ScoreOf(u)

\* C14 as stated: with the other signals fixed, a larger follower count,
\* following count or verified-address count, or a badge, avatar or display
\* name set instead of unset, never lowers the score.
C14_Monotone ==
  (fx.fn = "score" /\ fx.done /\ fx.found # {}) =>
     \A u \in fx.found :
       /\ fx.score = ScoreOf(u)
       /\ \A n \in ScoreFollowers :
            n > u.follower_count => ScoreOf(WithFollowers(u, n)) >= fx.score
       /\ \A n \in ScoreFollowing :
            n > u.following_count => ScoreOf(WithFollowing(u, n)) >= fx.score
       /\ MonotoneInOthers(u)

\* C14 amended: the score is non-decreasing in the verified-address count, the
\* badge, the avatar and the display name; in the follower and the following
\* count it is non-decreasing as long as the change does not take the ratio
\* out of [0.5, 10], and never drops by more than the 5 points of that bonus.
C14_MonotoneApartFromRatio ==
  (fx.fn = "score" /\ fx.done /\ fx.found # {}) =>
     \A u \in fx.found :
       /\ fx.score = ScoreOf(u)
       /\ \A n \in ScoreFollowers :
            n > u.follower_count =>
              /\ ScoreOf(WithFollowers(u, n)) >= fx.score - 5
              /\ (RatioInRange(WithFollowers(u, n)) \/ ~RatioInRange(u)) =>
                   ScoreOf(WithFollowers(u, n)) >= fx.score
       /\ \A n \in ScoreFollowing :
            n > u.following_count =>
              /\ ScoreOf(WithFollowing(u, n)) >= fx.score - 5
              /\ (RatioInRange(WithFollowing(u, n)) \/ ~RatioInRange(u)) =>
                   ScoreOf(WithFollowing(u, n)) >= fx.score
       /\ MonotoneInOthers(u)

\* a scored profile with ratio 10 for which one more follower loses the ratio
\* bonus, and a verified address more gains points
C14_Witness ==
  /\ fx.fn = "score" /\ fx.done /\ fx.fid # 0
  /\ \E u \in fx.found :
       /\ u.follower_count = 10 /\ u.following_count = 1
       /\ ~RatioInRange(WithFollowers(u, 11))
       /\ Len(u.eth_addresses) = 1
       /\ ScoreOf([u EXCEPT !.eth_addresses = <<WA, WB>>]) > fx.score

----------------------------------------------------------------------------
(* The trust score in the callback *)

\* C15: the score gates nothing: an attempt that passes the wallet check goes
\* on to the role grant whatever its score; the outcome of the grant step is
\* the outcome of assignHolderRole alone; the Binding stored is the one the
\* session, the account and the balances determine.
C15_ScoreNeverGates ==
  [][\A s \in Slots :
       /\ (StepOf(s) /\ cb[s].pc = "checkWallet") =>
            /\ cb'[s].page # "wallet_conflict" => cb'[s].pc = "grant"
            /\ [cb'[s] EXCEPT !.sybilScore = 0] \in
                 {[cb[s] EXCEPT !.pc = "grant"]}
                   \cup {[cb[s] EXCEPT !.pc = "deletePending",
                                      !.page = "wallet_conflict", !.named = n] :
                            n \in {Username[d] : d \in DiscordIds}}
            /\ verifications' = verifications /\ roles' = roles
       /\ (StepOf(s) /\ cb[s].pc = "grant") =>
            \E outcome \in GrantOutcomes :
              LET r == assignHolderRole(cb[s].user, outcome)
              IN  /\ roles' = r.roles
                  /\ cb'[s] = [cb[s] EXCEPT !.roleAssigned = r.ret,
                                 !.pc = IF r.ret THEN "store" ELSE "done",
                                 !.page = IF r.ret THEN "none" ELSE "role_failed"]
       /\ (StepOf(s) /\ cb[s].pc = "store") =>
            /\ \A v \in verifications' :
                 v.discord_id = cb[s].user => Untimed(v) = BoundRow(s)
            /\ cb'[s].sybilScore = cb[s].sybilScore]_vars

\* an attempt with a social identifier whose score is below passesSybilCheck's
\* threshold has ended in success, its Binding stored and the role granted
C15_Witness ==
  \E s \in Slots :
    /\ cb[s].pc = "done" /\ cb[s].page = "success"
    /\ cb[s].fid > 0 /\ cb[s].sybilScore < 25
    /\ cb[s].user \in roles
    /\ \E v \in verifications : Untimed(v) = BoundRow(s)

----------------------------------------------------------------------------
(* Properties of the re-verification runs *)

\* a step of run r, in any action
RunStep(r) == rv'[r] # rv[r]

\* what re-verification must leave alone
Identity(v) ==
  [fid |-> v.fid, wallet |-> v.wallet, discord_id |-> v.discord_id,
   discord_username |-> v.discord_username, verified_at |-> v.verified_at]

\* C16: a step of a run leaves every Binding it keeps with its wallet, social
\* identifier, account, display name and creation time; only the Binding of the
\* account at the head of the batch may change, in balance and last_checked.
C16_RecheckKeepsIdentity ==
  [][\A r \in Runs :
       RunStep(r) =>
         \A w \in verifications' :
           \E v \in verifications :
             /\ Identity(w) = Identity(v)
             /\ w # v => /\ rv[r].pc = "update"
                         /\ w.discord_id = Head(rv[r].queue).discord_id]_vars

\* a run is about to update a Binding whose stored wallet holds nothing now,
\* the whole balance sitting in another wallet of the social identifier
C16_Witness ==
  \E r \in Runs :
    /\ rv[r].pc = "update" /\ rv[r].totalBalance > 0
    /\ \E v \in verifications :
         /\ v.discord_id = Head(rv[r].queue).discord_id
         /\ v.wallet = Head(rv[r].queue).wallet
         /\ v.fid > 0
         /\ chain[v.wallet] = 0

\* C17 as stated: a run goes on to the next Binding of its batch whatever
\* happened to the current one, and a Binding for which a collaborator call
\* failed is left as it was, role included, to be selected again.
C17_FailureLeavesBinding ==
  [][\A r \in Runs :
       /\ (RunStep(r) /\ rv[r].pc \in {"delete", "update"}) =>
            rv'[r] = NextItem(rv[r].queue)
       /\ (RunStep(r) /\ rv[r].failure) =>
            /\ verifications' = verifications
            /\ roles' = roles]_vars

----------------------------------------------------------------------------
(* Re-verification batches: two accounts bound at different hours, the batch  *)
(* limit scaled down to MaxBatch so that a run has to leave stale rows out,   *)
(* no collaborator failing.                                                   *)

MaxBatch == 1
MaxBatchTime == 39

\* just over half a day: rows written one step apart are both stale three steps
\* after the first was written, and only the first is stale two steps after
BatchTickSteps == {STALE_AGE \div 2 + 1}

BatchFaults ==
  [AllFaults EXCEPT !.api = {TRUE}, !.rpc = {{}}, !.grant = {"ok"}, !.revoke = {"ok"},
                    !.db = {TRUE}, !.read = {TRUE}, !.runs = {1}, !.limit = MaxBatch,
                    !.profile = OneProfile]

NextBatch ==
  \/ BotReady
  \/ \E w \in Wallets, b \in 0..MaxBalance : ChainChange(w, b)
  \/ \E d \in BatchTickSteps : Advance(d, MaxBatchTime)
  \/ Start(BatchFaults)
  \/ Begin(SeqSlots, BatchFaults)
  \/ \E s \in SeqSlots : CallbackStep(s, BatchFaults)
  \/ Timers(BatchFaults)

SpecBatch == Init /\ [][NextBatch]_vars

\* the accounts of a batch, and the row an item of a batch was read from
AccountsOf(queue) == {queue[i].discord_id : i \in DOMAIN queue}

RowOf(item) == CHOOSE v \in verifications : v.discord_id = item.discord_id

\* C18: the batch a run starts with holds at most the limit of rows, each stale
\* by more than 24 hours when selected, in ascending last_checked, none of them
\* newer than a stale row left out; and no step of the run changes the Binding
\* or the role of an account that is not in its batch.
C18_BatchSelection ==
  [][\A r \in Runs :
       /\ (rv[r].pc = "idle" /\ rv'[r].pc # "idle") =>
            LET batch == rv'[r].queue
                chosen == {v \in verifications : v.discord_id \in AccountsOf(batch)}
            IN  /\ Len(batch) <= MaxBatch
                /\ Cardinality(chosen) = Len(batch)
                /\ \A v \in chosen : v.last_checked < now - STALE_AGE
                /\ \A i, j \in DOMAIN batch :
                     i < j => RowOf(batch[i]).last_checked <= RowOf(batch[j]).last_checked
                /\ \A v \in chosen, u \in StaleRows \ chosen :
                     v.last_checked <= u.last_checked
       /\ RunStep(r) =>
            /\ \A v \in verifications :
                 v.discord_id \notin AccountsOf(rv[r].queue) => v \in verifications'
            /\ \A d \in DiscordIds \ AccountsOf(rv[r].queue) :
                 d \in roles' <=> d \in roles]_vars

\* a run has taken the older of two stale Bindings and left the newer one out
C18_Witness ==
  \E r \in Runs, v \in StaleRows, u \in StaleRows :
    /\ rv[r].pc = "check"
    /\ AccountsOf(rv[r].queue) = {v.discord_id}
    /\ u.discord_id # v.discord_id
    /\ v.last_checked < u.last_checked

----------------------------------------------------------------------------
(* Overlapping re-verification runs: the interval fires again while the run   *)
(* it started before is still waiting on a call; one account, the role calls  *)
(* the only collaborators that fail.                                          *)

RunsFaults ==
  [AllFaults EXCEPT !.api = {TRUE}, !.rpc = {{}}, !.db = {TRUE}, !.read = {TRUE},
                    !.accounts = {"D1"}, !.profile = OneProfile]

NextRuns ==
  \/ BotReady
  \/ \E w \in Wallets, b \in 0..MaxBalance : ChainChange(w, b)
  \/ \E d \in TickSteps : Tick(d)
  \/ Start(RunsFaults)
  \/ Begin(SeqSlots, RunsFaults)
  \/ \E s \in SeqSlots : CallbackStep(s, RunsFaults)
  \/ Timers(RunsFaults)

SpecRuns == Init /\ [][NextRuns]_vars

\* run r is working on the Binding of account d
WorksOn(r, d) == rv[r].queue # <<>> /\ Head(rv[r].queue).discord_id = d

\* C19 as stated: a run that finds a total of 0 goes on to revoke the role and
\* then to delete the Binding, and it is the only run to call the revoke for
\* that Binding: no other run has called it and is about to delete the same,
\* still stale, Binding.
C19_RevokedOnce ==
  [][\A r \in Runs :
       /\ (RunStep(r) /\ rv[r].pc = "check" /\ rv'[r].totalBalance = 0) =>
            rv'[r].pc = "revoke"
       /\ (RunStep(r) /\ rv[r].pc = "revoke") =>
            /\ rv'[r].pc = "delete"
            /\ \A q \in Runs \ {r}, v \in StaleRows :
                 ~ /\ rv[q].pc = "delete"
                   /\ WorksOn(q, v.discord_id)
                   /\ WorksOn(r, v.discord_id)
       /\ (RunStep(r) /\ rv[r].pc = "delete") =>
            \A v \in verifications' : ~WorksOn(r, v.discord_id)]_vars

\* the sum of the reads obs[i], i in I
RECURSIVE SumOfReads(_, _)
SumOfReads(obs, I) ==
  IF I = {} THEN 0
  ELSE LET i == CHOOSE x \in I : TRUE IN obs[i] + SumOfReads(obs, I \ {i})

\* the totals a check of the candidates of (fid, wallet) can observe now: the
\* wallet and the wallets found for the fid, a failed read counting as 0
CandidateTotals(fid, wallet) ==
  UNION {LET all == allWalletsOf(wallet, getFarcasterWallets(NeynarResponse(fid, apiOk)))
         IN  {SumOfReads(Observe(chain, all, failed), DOMAIN all) :
                failed \in SUBSET DOMAIN all} :
         apiOk \in BOOLEAN}

\* C20 as stated: the total an attempt or a run arrives at is the sum of the
\* reads of all the candidate wallets, and the balance written to a Binding is
\* that total for the candidates of that very Binding: the attempt writes it
\* with the Binding, the run writes it to the Binding it read the wallet and
\* the fid from.
C20_BalanceIsCandidateSum ==
  [][/\ \A s \in Slots :
          /\ (StepOf(s) /\ cb[s].pc = "wallets") =>
               cb'[s].totalBalance \in CandidateTotals(cb[s].fid, cb[s].wallet)
          /\ (StepOf(s) /\ cb[s].pc = "store") =>
               \A v \in verifications' \ verifications :
                 /\ v.discord_id = cb[s].user /\ v.fid = cb[s].fid
                 /\ v.nft_balance = cb[s].totalBalance
     /\ \A r \in Runs :
          /\ (RunStep(r) /\ rv[r].pc = "check") =>
               rv'[r].totalBalance \in
                 CandidateTotals(Head(rv[r].queue).fid, Head(rv[r].queue).wallet)
          /\ (RunStep(r) /\ rv[r].pc = "update") =>
               \A v \in verifications' \ verifications :
                 /\ v.discord_id = Head(rv[r].queue).discord_id
                 /\ v.fid = Head(rv[r].queue).fid
                 /\ v.wallet = Head(rv[r].queue).wallet
                 /\ v.nft_balance = rv[r].totalBalance]_vars

\* every wallet the attempt in slot s can come to read: the session's wallet and
\* the wallets known for its fid
CandidatesOf(s) ==
  Range(resolveWallets(cb[s].fid, cb[s].wallet, NeynarResponse(cb[s].fid, TRUE)))

----------------------------------------------------------------------------
(* The life of a PendingSession: one account, the clock moving an hour at a   *)
(* time, role calls and table writes of the handlers failing, the cleanup     *)
(* interval firing again and again and the clock never standing still.        *)

MaxSweepTime == 3

SweepTickSteps == {PENDING_MAX_AGE}

SweepFaults ==
  [AllFaults EXCEPT !.api = {TRUE}, !.rpc = {{}}, !.read = {TRUE},
                    !.accounts = {"D1"}, !.profile = OneProfile]

SweepTick == \E d \in SweepTickSteps : Advance(d, MaxSweepTime)

NextSweep ==
  \/ BotReady
  \/ SweepTick
  \/ Start(SweepFaults)
  \/ Begin(SeqSlots, SweepFaults)
  \/ \E s \in SeqSlots : CallbackStep(s, SweepFaults)
  \/ CleanupTimer

SpecSweep ==
  Init /\ [][NextSweep]_vars /\ WF_vars(CleanupTimer) /\ WF_vars(SweepTick)

\* a step of the cleanup interval: sessions go and no handler has moved
SweepStep == pendings' # pendings /\ cb' = cb /\ nextSession' = nextSession

HasSession(id) == \E p \in pendings : p.session_id = id

C23_OAuthFailureAborts ==
  [][\A s \in Slots :
       /\ (StepOf(s) /\ cb[s].pc = "idle" /\ cb'[s].user = "none") =>
            /\ cb'[s].pc = "done"
            /\ cb'[s].page \in {"error", "invalid_session"}
            /\ verifications' = verifications /\ roles' = roles
       /\ (StepOf(s) /\ cb[s].page = "error") =>
            /\ cb'[s] = IdleCallback
            /\ cb[s].totalBalance = 0 /\ ~cb[s].roleAssigned /\ ~cb[s].stored
            /\ verifications' = verifications /\ roles' = roles]_vars

\* OAuth has failed for a session that exists, another attempt being under way
C23_Witness ==
  \E s \in Slots, t \in Slots :
    /\ cb[s].pc = "done" /\ cb[s].page = "error" /\ HasSession(cb[s].sessionId)
    /\ cb[t].pc = "store"

----------------------------------------------------------------------------
(* The requests as they arrive: the three endpoints that start a verification *)
(* (GET /auth/discord, POST /verify, POST /auth/wallet-connect) and the       *)
(* callback, with parameters that may be missing or malformed.  fx holds the  *)
(* last start request and the response it got.                                *)

\* a parameter that is absent or the empty string: !param
Absent == <<>>

Digits == {"0", "2", "4"}

DigitValue(c) == CASE c = "0" -> 0 [] c = "2" -> 2 [] c = "4" -> 4

NaN == [nan |-> TRUE, value |-> 0]

RECURSIVE DigitsValue(_, _)
DigitsValue(str, acc) ==
  IF str = <<>> THEN acc ELSE DigitsValue(Tail(str), 10 * acc + DigitValue(Head(str)))

RECURSIVE DigitPrefix(_)
DigitPrefix(str) ==
  IF str = <<>> \/ Head(str) \notin Digits THEN <<>>
  ELSE <<Head(str)>> \o DigitPrefix(Tail(str))

\* Number(str): the whole string has to be a number
ToNumber(str) ==
  IF \A i \in DOMAIN str : str[i] \in Digits
  THEN [nan |-> FALSE, value |-> DigitsValue(str, 0)] ELSE NaN

\* parseInt(str, 10): the digits the string starts with
ParseInt(str) ==
  IF DigitPrefix(str) = <<>> THEN NaN
  ELSE [nan |-> FALSE, value |-> DigitsValue(DigitPrefix(str), 0)]

RECURSIVE TrimStart(_)
TrimStart(str) ==
  IF str # <<>> /\ Head(str) = " " THEN TrimStart(Tail(str)) ELSE str

RECURSIVE TrimEnd(_)
TrimEnd(str) ==
  IF str # <<>> /\ str[Len(str)] = " " THEN TrimEnd(SubSeq(str, 1, Len(str) - 1))
  ELSE str

Trim(str) == TrimEnd(TrimStart(str))

\* /^\d{17,20}$/
IsValidDiscordId(d) == Len(d) \in 17..20 /\ \A i \in DOMAIN d : d[i] \in Digits

Snowflake(n) == [i \in 1..n |-> "2"]

DiscordIdParams ==
  {Absent, Snowflake(16), Snowflake(17), Snowflake(21),
   [Snowflake(17) EXCEPT ![3] = "x"]}

FidParams == {Absent, <<"0">>, <<"4", "2">>, <<"x">>, <<"4", "2", "x">>}

WalletParams == {Absent, WA, <<"g", "1">>, <<"a">>, <<"a", "1", " ">>}

\* the requests that can arrive at a start endpoint
StartRequests ==
  [fn : {"start"}, endpoint : {"auth_discord", "verify", "wallet_connect"},
   discord_id : DiscordIdParams, fid : FidParams, wallet : WalletParams,
   response : {"none"}]

Pending(endpoint) == fx.fn = "start" /\ fx.endpoint = endpoint /\ fx.response = "none"

Respond(response) == fx' = [fx EXCEPT !.response = response]

\* storePending and the redirect to Discord; a fid that is not a number is
\* refused by the table (fid INTEGER NOT NULL) and the redirect goes out anyway
StoreAndRedirect(fidNum, walletAddress, dbOk) ==
  /\ nextSession <= MaxSessions
  /\ pendings' = IF dbOk /\ ~fidNum.nan
                 THEN storePending(pendings, nextSession, fidNum.value, walletAddress)
                 ELSE pendings
  /\ nextSession' = nextSession + 1
  /\ Respond("redirect")

Reject(response) ==
  /\ pendings' = pendings
  /\ nextSession' = nextSession
  /\ Respond(response)

\* GET /auth/discord
AuthDiscordRequest(dbOk) ==
  /\ Pending("auth_discord")
  /\ IF fx.fid = Absent \/ fx.wallet = Absent THEN Reject("bad_request")
     ELSE IF ~IsValidWallet(fx.wallet) THEN Reject("bad_request")
     ELSE StoreAndRedirect(ToNumber(fx.fid), fx.wallet, dbOk)
  /\ UNCHANGED <<verifications, roles, isReady, chain, now, cb, rv>>

\* POST /verify
VerifyRequest(apiOk, dbOk) ==
  /\ Pending("verify")
  /\ LET fidNum == ParseInt(fx.fid)
         walletAddress == IF fx.wallet = Absent THEN Absent ELSE Trim(fx.wallet)
         farcasterWallets ==
           IF fidNum.nan THEN <<>>
           ELSE getFarcasterWallets(NeynarResponse(fidNum.value, apiOk))
     IN  IF fx.discord_id = Absent \/ ~IsValidDiscordId(fx.discord_id)
         THEN Reject("bad_request")
         ELSE IF fx.fid = Absent \/ fidNum.nan \/ fidNum.value < 1
         THEN Reject("form_error")
         ELSE IF walletAddress # Absent /\ ~IsValidWallet(walletAddress)
         THEN Reject("form_error")
         ELSE IF walletAddress = Absent /\ farcasterWallets = <<>>
         THEN Reject("form_error")
         ELSE StoreAndRedirect(fidNum,
                               IF walletAddress = Absent THEN farcasterWallets[1]
                               ELSE walletAddress,
                               dbOk)
  /\ UNCHANGED <<verifications, roles, isReady, chain, now, cb, rv>>

\* the endpoint with the address format left unchecked
WalletConnectRequestUnvalidated(dbOk) ==
  /\ Pending("wallet_connect")
  /\ LET walletAddress == IF fx.wallet = Absent THEN Absent ELSE Trim(fx.wallet)
     IN  IF fx.discord_id = Absent \/ ~IsValidDiscordId(fx.discord_id)
         THEN Reject("bad_request")
         ELSE IF walletAddress = Absent
         THEN Reject("form_error")
         ELSE StoreAndRedirect([nan |-> FALSE, value |-> 0], walletAddress, dbOk)
  /\ UNCHANGED <<verifications, roles, isReady, chain, now, cb, rv>>

\* POST /auth/wallet-connect
WalletConnectRequest(dbOk) ==
  /\ Pending("wallet_connect")
  /\ LET walletAddress == IF fx.wallet = Absent THEN Absent ELSE Trim(fx.wallet)
     IN  IF fx.discord_id = Absent \/ ~IsValidDiscordId(fx.discord_id)
         THEN Reject("bad_request")
         ELSE IF walletAddress = Absent \/ ~IsValidWallet(walletAddress)
         THEN Reject("form_error")
         ELSE StoreAndRedirect([nan |-> FALSE, value |-> 0], walletAddress, dbOk)
  /\ UNCHANGED <<verifications, roles, isReady, chain, now, cb, rv>>

\* the callback without its code or its state
CallbackMissingParams(s, code, state) ==
  /\ cb[s].pc = "idle"
  /\ code = Absent \/ state = Absent
  /\ cb' = [cb EXCEPT ![s] = [IdleCallback EXCEPT !.pc = "done", !.page = "bad_request"]]
  /\ UNCHANGED <<verifications, pendings, roles, isReady, chain, now, nextSession, rv, fx>>

StartFaults ==
  [AllFaults EXCEPT !.api = {TRUE}, !.rpc = {{}}, !.grant = {"ok"}, !.read = {TRUE},
                    !.accounts = {"D1"}, !.profile = OneProfile]

\* one request at a start endpoint, then callbacks
InitStart ==
  /\ verifications = {}
  /\ pendings = {}
  /\ roles = {}
  /\ isReady = FALSE
  /\ chain = [w \in Wallets |-> 1]
  /\ now = 0
  /\ nextSession = 1
  /\ cb = [s \in Slots |-> IdleCallback]
  /\ rv = [r \in Runs |-> IdleRun]
  /\ fx \in StartRequests

NextStart ==
  \/ BotReady
  \/ \E dbOk \in StartFaults.db : AuthDiscordRequest(dbOk)
  \/ \E apiOk \in BOOLEAN, dbOk \in StartFaults.db : VerifyRequest(apiOk, dbOk)
  \/ \E dbOk \in StartFaults.db : WalletConnectRequest(dbOk)
  \/ \E s \in SeqSlots, code \in {Absent, <<"c">>}, state \in {Absent, <<"s">>} :
       CallbackMissingParams(s, code, state)
  \/ Begin(SeqSlots, StartFaults)
  \/ \E s \in SeqSlots : CallbackStep(s, StartFaults)

SpecStart == InitStart /\ [][NextStart]_vars

BadDiscordId(q) == q.discord_id = Absent \/ ~IsValidDiscordId(q.discord_id)

\* a wallet parameter that is there and is not an address, read as the
\* endpoint reads it: the two POST endpoints trim it first
BadWallet(q) ==
  /\ q.wallet # Absent
  /\ ~IsValidWallet(IF q.endpoint = "auth_discord" THEN q.wallet ELSE Trim(q.wallet))

\* a parameter of the endpoint is missing
MissingParam(q) ==
  \/ q.endpoint = "auth_discord" /\ (q.fid = Absent \/ q.wallet = Absent)
  \/ q.endpoint = "verify" /\ (q.discord_id = Absent \/ q.fid = Absent \/ q.wallet = Absent)
  \/ q.endpoint = "wallet_connect" /\ (q.discord_id = Absent \/ q.wallet = Absent)

\* a parameter the endpoint cannot do without is missing: POST /verify looks
\* the wallet up when it is not given
MissingRequiredParam(q) ==
  \/ q.endpoint = "auth_discord" /\ (q.fid = Absent \/ q.wallet = Absent)
  \/ q.endpoint = "verify" /\ (q.discord_id = Absent \/ q.fid = Absent)
  \/ q.endpoint = "wallet_connect" /\ (q.discord_id = Absent \/ q.wallet = Absent)

UsesDiscordId(q) == q.endpoint \in {"verify", "wallet_connect"}

\* a refused start request stores no session and sends no redirect
Refused ==
  /\ pendings' = pendings
  /\ nextSession' = nextSession
  /\ fx'.response \in {"bad_request", "form_error"}

\* a callback without code or state, or for a session that does not exist,
\* answers at once, with no account, and changes nothing
CallbackRefusals ==
  \A s \in Slots :
    /\ (StepOf(s) /\ cb[s].pc = "idle" /\ ~HasSession(cb'[s].sessionId)) =>
         /\ cb'[s].pc = "done"
         /\ cb'[s].page \in {"bad_request", "invalid_session"}
         /\ cb'[s].user = "none"
    /\ (StepOf(s) /\ cb[s].page \in {"bad_request", "invalid_session"}) =>
         /\ cb'[s] = IdleCallback
         /\ verifications' = verifications /\ roles' = roles /\ pendings' = pendings

\* C24 as stated: a start request with a parameter missing, a malformed wallet
\* or a malformed Discord id stores no session and is not redirected, and a
\* callback without code or state or with an unknown session does nothing.
C24_ValidationStopsRequests ==
  [][/\ (fx' # fx /\ (MissingParam(fx) \/ BadWallet(fx)
                        \/ (UsesDiscordId(fx) /\ BadDiscordId(fx)))) => Refused
     /\ CallbackRefusals]_vars

\* C24 amended: the same for a missing parameter that the endpoint requires.
C24_RequiredValidation ==
  [][/\ (fx' # fx /\ (MissingRequiredParam(fx) \/ BadWallet(fx)
                        \/ (UsesDiscordId(fx) /\ BadDiscordId(fx)))) => Refused
     /\ CallbackRefusals]_vars

\* a wallet-connect request without a wallet has been refused, and a callback
\* for a session that does not exist has been answered
C24_Witness ==
  /\ fx.fn = "start" /\ fx.endpoint = "wallet_connect"
  /\ fx.wallet = Absent /\ ~BadDiscordId(fx)
  /\ fx.response = "form_error"
  /\ pendings = {}
  /\ \E s \in Slots : cb[s].pc = "done" /\ cb[s].page = "invalid_session"

\* C25 as stated: an attempt that is at its response with the role granted has
\* also persisted its Binding, and one that answers with the success page has
\* done both.
C25_GrantAndStoreTogether ==
  \A s \in Slots :
    cb[s].pc = "done" =>
      /\ cb[s].roleAssigned => (cb[s].stored /\ cb[s].storeOk)
      /\ cb[s].page = "success" => (cb[s].roleAssigned /\ cb[s].storeOk)

----------------------------------------------------------------------------
(* Attempts one after the other, each run to its end before the next starts, *)
(* by two accounts, every wallet holding a token and no collaborator failing. *)

TurnFaults ==
  [AllFaults EXCEPT !.api = {TRUE}, !.rpc = {{}}, !.grant = {"ok"}, !.db = {TRUE},
                    !.read = {TRUE}, !.profile = OneProfile]

NextTurns ==
  \/ BotReady
  \/ Start(TurnFaults)
  \/ Begin(SeqSlots, TurnFaults)
  \/ \E s \in SeqSlots : CallbackStep(s, TurnFaults)

SpecTurns == InitConc /\ [][NextTurns]_vars

\* the wallets whose balances make up the aggregate of Binding v: its stored
\* wallet and the wallets known for its fid
CountedBy(v) ==
  Range(allWalletsOf(v.wallet, getFarcasterWallets(NeynarResponse(v.fid, TRUE))))

\* C26 as stated: no wallet that holds tokens is counted in the Bindings of two
\* different accounts, whether as the stored wallet or as a wallet found
\* through the social identifier.
C26_OneWalletOneAccount ==
  \A v \in verifications, u \in verifications :
    v.discord_id # u.discord_id =>
      \A w \in CountedBy(v) \cap CountedBy(u) : chain[w] = 0

\* a Binding of another account stands in the way of the attempt in slot s
Conflict(s) ==
  \E v \in verifications :
    /\ v.discord_id # cb[s].user
    /\ v.wallet = cb[s].holdingWallet \/ (cb[s].fid > 0 /\ v.fid = cb[s].fid)

----------------------------------------------------------------------------
(* Process start: the environment holds some of the configuration values;    *)
(* start() logs the bot in and opens the port; the values are read where the  *)
(* handlers and timers use them.  fx holds the environment and the phase.     *)

\* the values the handlers and timers cannot work without
RequiredConfig ==
  {"DISCORD_CLIENT_ID", "DISCORD_CLIENT_SECRET", "DISCORD_REDIRECT_URI",
   "DISCORD_GUILD_ID", "PROTARDIO_CONTRACT_ADDRESS", "NEYNAR_API_KEY",
   "SUPABASE_URL", "SUPABASE_SERVICE_ROLE_KEY"}

ConfigKeys == RequiredConfig \cup {"DISCORD_BOT_TOKEN"}

BootStates ==
  [fn : {"boot"}, env : SUBSET ConfigKeys, phase : {"loading"},
   failedAtUse : {{}}]

InitBoot ==
  /\ verifications = {}
  /\ pendings = {}
  /\ roles = {}
  /\ isReady = FALSE
  /\ chain = [w \in Wallets |-> 0]
  /\ now = 0
  /\ nextSession = 1
  /\ cb = [s \in Slots |-> IdleCallback]
  /\ rv = [r \in Runs |-> IdleRun]
  /\ fx \in BootStates

\* start(): startBot logs in with the token, then app.listen; a login that
\* throws ends the process
StartProcess ==
  /\ fx.fn = "boot" /\ fx.phase = "loading"
  /\ fx' = [fx EXCEPT !.phase = IF "DISCORD_BOT_TOKEN" \in fx.env
                                THEN "listening" ELSE "exited"]
  /\ UNCHANGED <<verifications, pendings, roles, isReady, chain, now, nextSession, cb, rv>>

\* a handler or a timer reads the value k and finds it missing: the call it
\* was for fails (a thrown error, a failed request, an empty answer), and the
\* process goes on serving
UseMissingConfig(k) ==
  /\ fx.fn = "boot" /\ fx.phase = "listening"
  /\ k \in RequiredConfig \ fx.env
  /\ k \notin fx.failedAtUse
  /\ fx' = [fx EXCEPT !.failedAtUse = @ \cup {k}]
  /\ UNCHANGED <<verifications, pendings, roles, isReady, chain, now, nextSession, cb, rv>>

NextBoot ==
  \/ StartProcess
  \/ \E k \in RequiredConfig : UseMissingConfig(k)

SpecBoot == InitBoot /\ [][NextBoot]_vars

\* C28 as stated: the process serves requests and runs its timers only with
\* every required value present, and no value is found missing at its use.
C28_FailFast ==
  (fx.fn = "boot" /\ fx.phase = "listening") =>
    (RequiredConfig \subseteq fx.env /\ fx.failedAtUse = {})

\* C29 as stated: getFarcasterWallets is called for a non-zero fid only, in an
\* attempt and in a run alike, and the total of a Binding with fid 0 is read
\* from its stored wallet alone.
C29_LookupOnlyForFid ==
  [][/\ \A s \in Slots : (StepOf(s) /\ cb'[s].lookup) => cb[s].fid > 0
     /\ \A r \in Runs :
          (RunStep(r) /\ rv[r].pc = "check" /\ Head(rv[r].queue).fid = 0) =>
            /\ ~rv'[r].lookup
            /\ rv'[r].totalBalance \in {0, chain[Head(rv[r].queue).wallet]}]_vars

\* C30 as stated: when a run deletes a Binding the account is left without the
\* holder role.
C30_DeletedMeansRevoked ==
  [][\A r \in Runs :
       (RunStep(r) /\ rv[r].pc = "delete" /\ verifications' # verifications) =>
         Head(rv[r].queue).discord_id \notin roles']_vars

----------------------------------------------------------------------------
(* Failed balance reads during re-verification *)

----------------------------------------------------------------------------
(* A run and a verification attempt for the same account *)

\* C32 as stated: a run that has read a stale Binding does nothing to the role
\* or to the Binding of that account once the account has verified again, that
\* is once the Binding in the table is one written after the run read it and
\* is no longer stale: no revoke, no delete, no balance written over it.
C32_FreshBindingSurvives ==
  [][\A r \in Runs :
       (RunStep(r) /\ rv[r].pc \in {"revoke", "delete", "update"}) =>
         \A v \in verifications \ StaleRows :
           v.discord_id = Head(rv[r].queue).discord_id =>
             /\ v \in verifications'
             /\ v.discord_id \in roles => v.discord_id \in roles']_vars

----------------------------------------------------------------------------
(* Sessions past their hour *)

\* C33 as stated: a callback goes on from the session lookup and the OAuth
\* exchange to the verification only with a session created no more than an
\* hour earlier, whether or not the sweep has removed the older ones yet.
C33_ExpiredSessionRefused ==
  [][\A s \in Slots :
       (StepOf(s) /\ cb[s].pc = "idle" /\ cb'[s].pc = "wallets") =>
         \E p \in pendings :
           /\ p.session_id = cb'[s].sessionId
           /\ now - p.created_at <= PENDING_MAX_AGE]_vars

----------------------------------------------------------------------------
(* The redirect of a start endpoint *)

\* C34 as stated: a start endpoint answers with the redirect to Discord, the
\* session id as state, only when the PendingSession of that id is in the
\* table.
C34_RedirectOnlyIfStored ==
  [][(fx' # fx /\ fx'.response = "redirect") =>
       \E p \in pendings' : p.session_id = nextSession]_vars

----------------------------------------------------------------------------
(* What a failed grant leaves behind *)

\* C35 as stated: a call of assignHolderRole that returns false has not added
\* the holder role: the account holds it after the call only if it held it
\* before.
C35_FalseMeansNotGranted ==
  [][\A s \in Slots :
       (StepOf(s) /\ cb[s].pc = "grant" /\ ~cb'[s].roleAssigned) =>
         (cb[s].user \in roles' => cb[s].user \in roles)]_vars

----------------------------------------------------------------------------
(* Re-verification under a fair interval: two accounts that verified half a   *)
(* day apart, no attempt in flight, the batch limit scaled down to MaxBatch,  *)
(* the table writes failing or not; the interval keeps firing and every call  *)
(* a run waits on returns.                                                    *)

StarveFaults == [BatchFaults EXCEPT !.db = BOOLEAN]

\* D1 has verified with wallet a at hour 0 and D2 with wallet b one step of the
\* clock later; both sessions are used up and deleted
InitStarve ==
  /\ now \in BatchTickSteps
  /\ verifications =
       storeVerification(
         {[fid |-> 0, wallet |-> WA, discord_id |-> "D1",
           discord_username |-> Username["D1"], nft_balance |-> 1,
           verified_at |-> 0, last_checked |-> 0]},
         0, WB, "D2", Username["D2"], 1)
  /\ pendings = {}
  /\ roles = {"D1", "D2"}
  /\ isReady = TRUE
  /\ chain = [w \in Wallets |-> 1]
  /\ nextSession = 3
  /\ cb = [s \in Slots |-> IdleCallback]
  /\ rv = [r \in Runs |-> IdleRun]
  /\ fx = NoFx

RunStarts == \E r \in StarveFaults.runs : RecheckStart(r, StarveFaults.limit)

RunProceeds ==
  \/ \E r \in StarveFaults.runs, apiOk \in StarveFaults.api, failed \in StarveFaults.rpc :
       RecheckBalance(r, apiOk, failed)
  \/ \E r \in StarveFaults.runs, outcome \in StarveFaults.revoke : RecheckRevoke(r, outcome)
  \/ \E r \in StarveFaults.runs, dbOk \in StarveFaults.db : RecheckDelete(r, dbOk)
  \/ \E r \in StarveFaults.runs, dbOk \in StarveFaults.db : RecheckUpdate(r, dbOk)

NextStarve ==
  \/ \E w \in Wallets, b \in 0..MaxBalance : ChainChange(w, b)
  \/ \E d \in BatchTickSteps : Advance(d, MaxBatchTime)
  \/ RunStarts
  \/ RunProceeds

SpecStarve ==
  InitStarve /\ [][NextStarve]_vars /\ WF_vars(RunStarts) /\ WF_vars(RunProceeds)

\* C36 as stated: a Binding that is stale is in the end selected by a run,
\* unless it stops being stale before: with more stale Bindings than the batch
\* limit, and with the writes for the selected ones failing again and again.
C36_NoStarvation ==
  \A d \in DiscordIds :
    (\E v \in StaleRows : v.discord_id = d)
      ~> \/ \E r \in Runs : \E i \in DOMAIN rv[r].queue : rv[r].queue[i].discord_id = d
         \/ ~ \E v \in StaleRows : v.discord_id = d

----------------------------------------------------------------------------
(* Whose account a verification binds *)

\* the account a Discord id names: the one well-formed id of the requests is
\* the id of D2, while it is D1 who goes through OAuth
AccountOfId(id) == IF id = Snowflake(17) THEN "D2" ELSE "none"

\* C37: the account of an attempt is the one that completed OAuth in its
\* callback; the role an attempt grants and the Binding it writes are that
\* account's; a start request changes no role and no Binding, and the session
\* it stores carries a fid and a wallet and no account; so every role and every
\* Binding belongs to an account that went through OAuth, whatever Discord id
\* the start request named.
C37_BoundToOAuthAccount ==
  [][/\ \A s \in Slots :
          /\ (StepOf(s) /\ cb[s].pc = "idle" /\ cb'[s].user # "none") =>
               cb'[s].user \in StartFaults.accounts
          /\ StepOf(s) =>
               /\ roles' \ roles \subseteq {cb[s].user}
               /\ \A v \in verifications' \ verifications : v.discord_id = cb[s].user
     /\ fx' # fx =>
          /\ roles' = roles /\ verifications' = verifications
          /\ \A p \in pendings' \ pendings :
               DOMAIN p = {"session_id", "fid", "wallet", "created_at"}
     /\ \A d \in roles' \cup {v.discord_id : v \in verifications'} :
          d \in StartFaults.accounts]_vars

\* POST /verify was sent with the id of D2 and the wallet of D1; D1 went
\* through OAuth for that session and is the one bound and granted the role
C37_Witness ==
  /\ fx.fn = "start" /\ fx.endpoint = "verify" /\ fx.response = "redirect"
  /\ AccountOfId(fx.discord_id) = "D2"
  /\ roles = {"D1"}
  /\ \E v \in verifications :
       v.discord_id = "D1" /\ v.wallet = toLowerCase(Trim(fx.wallet)) /\ v.fid = 42
  /\ \A v \in verifications : v.discord_id # "D2"

====
